---- MODULE Spec2Model ----
(***************************************************************************)
(* Model of VentilationSystem (src/src/ventilation.py): the control loop   *)
(* of run(), the five control_* rules of update_system(), cleanup(), and   *)
(* the two Flask handlers get_status / update_settings served by the       *)
(* daemon web thread, interleaved at statement granularity.                *)
(*                                                                         *)
(* Units: temperature, humidity and airflow are integers in tenths         *)
(* (22.0 degrees = 220); co2 is an integer in ppm.  A settings value that  *)
(* arrives as JSON is a tagged record: a finite number, NaN, or a string.  *)
(***************************************************************************)
EXTENDS Integers, Sequences, FiniteSets, TLC

VARIABLES
    settings,     \* self.settings: the dict of thresholds
    state,        \* self.state: the SystemState object self.state refers to
    detached,     \* the SystemState object that cleanup() replaced
    sensor_data,  \* self.sensor_data: the latest SensorData
    file,         \* settings.json on disk
    pc,           \* position of the main thread inside run()
    co2_limit,    \* local of control_fan, read at line 108
    exc,          \* exception that left the try block of run(), or "none"
    cleanups,     \* number of times cleanup() has run
    cycles,       \* number of update_system() calls started
    web,          \* the web thread: "none", "serving" or "unavailable"
    req,          \* the request handlers of the web thread
    posts,        \* number of POST /settings requests accepted
    gets,         \* number of GET /status requests accepted
    statuses,     \* the body of the GET /status response sent by this step
    acks,         \* the POST /settings response sent by this step
    published,    \* ActuatorStates present at the end of a decision cycle
    decisions,    \* each cycle's sensor reading with the ActuatorState it led to
    used,         \* settings values read by the rules of the current cycle
    cycleCfgs,    \* every value self.settings had during the current cycle
    lastPatch,    \* the data of the last settings.update() call
    settled,      \* the request of the last update() has been answered
    fresh         \* the current cycle started while settled, no update since

vars == <<settings, state, detached, sensor_data, file, pc, co2_limit, exc,
          cleanups, cycles, web, req, posts, gets, statuses, acks, published, decisions,
          used, cycleCfgs, lastPatch, settled, fresh>>

(***************************************************************************)
(* Bounds of the model.                                                    *)
(***************************************************************************)
MaxCycles == 2
MaxPosts == 2
MaxGets == 1
MaxReq == 2

(***************************************************************************)
(* JSON values of the numeric settings.                                    *)
(***************************************************************************)
Num(n) == [kind |-> "num", val |-> n]
NaN == [kind |-> "nan", val |-> 0]
Str == [kind |-> "str", val |-> 0]

\* float arithmetic: v + d; NaN propagates
FAdd(v, d) == IF v.kind = "num" THEN Num(v.val + d) ELSE v
\* x < v and x > v for a float x; every comparison with NaN is false
FLt(x, v) == v.kind = "num" /\ x < v.val
FGt(x, v) == v.kind = "num" /\ x > v.val
\* arithmetic or ordering against a str raises TypeError
Raises(v) == v.kind = "str"

(***************************************************************************)
(* Data: settings, SystemState, SensorData, settings.json.                 *)
(***************************************************************************)
NumericKeys == {"target_temp", "target_humidity", "co2_limit", "min_airflow"}
SettingsKeys == NumericKeys \cup {"recuperator_enabled"}

\* the dict load_settings returns when settings.json does not exist
DefaultSettings ==
    [target_temp |-> Num(220), target_humidity |-> Num(500),
     co2_limit |-> Num(800), min_airflow |-> Num(300),
     recuperator_enabled |-> TRUE]

\* SystemState(): every device off
DefaultState ==
    [heating |-> FALSE, cooling |-> FALSE, humidifier |-> FALSE,
     fan_speed |-> 0, recuperator |-> FALSE]

\* contents of settings.json
Absent == [kind |-> "absent", doc |-> <<>>]
Truncated == [kind |-> "truncated", doc |-> <<>>]
Doc(s) == [kind |-> "json", doc |-> s]

\* settings.json after two handlers wrote it through two descriptors: a
\* document, followed by the rest of the longer document c
Corrupt(c) == [kind |-> "corrupt", doc |-> c]

\* length of the text json.dump writes for the value v of the key k
Digits(n) == IF n < 10 THEN 1 ELSE IF n < 100 THEN 2 ELSE IF n < 1000 THEN 3 ELSE 4
ValueLen(k, v) ==
    IF k = "recuperator_enabled" THEN (IF v THEN 4 ELSE 5)
    ELSE IF v.kind = "nan" THEN 3
    ELSE IF v.kind = "str" THEN 5
    ELSE IF k \in {"co2_limit", "extra"} THEN Digits(v.val)
    ELSE Digits(v.val \div 10) + 2

\* length of the line json.dump writes for the key k, without its value
KeyLen ==
    [target_temp |-> 19, target_humidity |-> 23, co2_limit |-> 17,
     min_airflow |-> 19, recuperator_enabled |-> 27, extra |-> 13]

\* length of the document json.dump writes for the dict s
RECURSIVE LinesLen(_, _)
LinesLen(s, keys) ==
    IF keys = {} THEN 0
    ELSE LET k == CHOOSE x \in keys : TRUE
         IN  KeyLen[k] + ValueLen(k, s[k]) + LinesLen(s, keys \ {k})
DocLen(s) == LinesLen(s, DOMAIN s)

\* length of settings.json
FileLen(f) == IF f.kind \in {"json", "corrupt"} THEN DocLen(f.doc) ELSE 0

\* the file f after the text of the dict d is written at its offset 0: the
\* text replaces what it covers and leaves the rest of a longer content
Overwrite(f, d) ==
    IF DocLen(d) >= FileLen(f) THEN Doc(d) ELSE Corrupt(f.doc)

\* load_settings: the parsed document, or the defaults on FileNotFoundError
load_settings(f) == IF f.kind = "absent" THEN DefaultSettings ELSE f.doc

\* json.load raises JSONDecodeError on an empty file; load_settings catches
\* FileNotFoundError only, so __init__ raises and the process ends
load_raises(f) == f.kind \in {"truncated", "corrupt"}

running == TRUE
simulate_sensors == TRUE

\* SensorData(temperature, humidity, co2, airflow)
SensorData(t, h, c, a) ==
    [temperature |-> t, humidity |-> h, co2 |-> c, airflow |-> a]

\* SensorData(0.0, 0.0, 0.0, 0.0) of __init__
InitSensor == SensorData(0, 0, 0, 0)

\* sampled readings of the simulated ranges 20+U(-2,5), 45+U(-10,10),
\* 600+randint(-100,300), 40+U(-5,10)
Simulated ==
    { SensorData(180, 440, 900, 400),
      SensorData(210, 450, 800, 350),
      SensorData(250, 540, 900, 400) }

\* read_sensors: the readings one call can return
read_sensors ==
    IF simulate_sensors THEN Simulated ELSE {SensorData(200, 500, 400, 400)}

(***************************************************************************)
(* The five rules.  Each is the SystemState the rule leaves; a rule    *)
(* whose setting is a str raises TypeError instead.                        *)
(***************************************************************************)
\* control_heating without the hold: off whenever it is not switched on
control_heating_no_hold(st, target, temp) ==
    IF FLt(temp, FAdd(target, -10)) THEN [st EXCEPT !.heating = TRUE]
    ELSE [st EXCEPT !.heating = FALSE]

control_heating(st, target, temp) ==
    IF FLt(temp, FAdd(target, -10)) THEN [st EXCEPT !.heating = TRUE]
    ELSE IF FGt(temp, FAdd(target, 5)) THEN [st EXCEPT !.heating = FALSE]
    ELSE st

\* control_cooling with a hold: never switched off
control_cooling_hold(st, target, temp) ==
    IF FGt(temp, FAdd(target, 30)) THEN [st EXCEPT !.cooling = TRUE] ELSE st

control_cooling(st, target, temp) ==
    LET max_temp == FAdd(target, 30)
    IN  IF FGt(temp, max_temp) THEN [st EXCEPT !.cooling = TRUE]
        ELSE [st EXCEPT !.cooling = FALSE]

\* control_humidifier with the off threshold at target + 5.0
control_humidifier_wide(st, target, humidity) ==
    IF FLt(humidity, FAdd(target, -50)) THEN [st EXCEPT !.humidifier = TRUE]
    ELSE IF FGt(humidity, FAdd(target, 50)) THEN [st EXCEPT !.humidifier = FALSE]
    ELSE st

control_humidifier(st, target, humidity) ==
    IF FLt(humidity, FAdd(target, -50)) THEN [st EXCEPT !.humidifier = TRUE]
    ELSE IF FGt(humidity, FAdd(target, 30)) THEN [st EXCEPT !.humidifier = FALSE]
    ELSE st

\* control_fan with "and" in place of "or"
control_fan_and(st, limit, min_airflow, co2, airflow) ==
    IF FGt(co2, limit) /\ FLt(airflow, min_airflow)
    THEN [st EXCEPT !.fan_speed = 100]
    ELSE [st EXCEPT !.fan_speed = 50]

\* co2 > co2_limit or airflow < min_airflow: "or" evaluates its right
\* operand only when the left one is false
control_fan(st, limit, min_airflow, co2, airflow) ==
    IF FGt(co2, limit) \/ FLt(airflow, min_airflow)
    THEN [st EXCEPT !.fan_speed = 100]
    ELSE [st EXCEPT !.fan_speed = 50]

control_fan_raises(limit, min_airflow, co2) ==
    Raises(limit) \/ (~FGt(co2, limit) /\ Raises(min_airflow))

\* control_recuperator without the temperature test
control_recuperator_any_temp(st, enabled, temp) ==
    IF enabled THEN [st EXCEPT !.recuperator = TRUE]
    ELSE [st EXCEPT !.recuperator = FALSE]

control_recuperator(st, enabled, temp) ==
    IF enabled /\ temp > 50 THEN [st EXCEPT !.recuperator = TRUE]
    ELSE [st EXCEPT !.recuperator = FALSE]

(***************************************************************************)
(* Requests of POST /settings: the JSON bodies the model sends.            *)
(***************************************************************************)
EmptyPatch == [k \in {} |-> NaN]

Patches ==
    { EmptyPatch,
      "co2_limit" :> Num(1000),
      ("target_temp" :> Num(205)) @@ ("target_humidity" :> Num(510))
          @@ ("min_airflow" :> Num(400))
          @@ ("recuperator_enabled" :> FALSE) @@ ("extra" :> Num(1)),
      ("target_temp" :> NaN) @@ ("co2_limit" :> Str) }

\* settings.update applied to a copy of the dict: self.settings is not changed
Update_copy(s, data) == s

\* dict.update(data): every key of data is set, the other keys are kept
Update(s, data) ==
    [k \in (DOMAIN s) \cup (DOMAIN data) |->
        IF k \in DOMAIN data THEN data[k] ELSE s[k]]

Reqs == 1..MaxReq
Idle == [at |-> "idle", sensor |-> InitSensor, ref |-> "none",
         data |-> EmptyPatch, id |-> 0, doc |-> EmptyPatch]

\* a new request is served by the first free handler
FreeHandler(r) == req[r].at = "idle" /\ \A q \in Reqs : q < r => req[q].at # "idle"

\* the web thread is a daemon thread: it ends when the main thread has ended
Serving == web = "serving" /\ pc # "done"

(***************************************************************************)
(* Initial state: the object after __init__, before run().  settings.json  *)
(* is absent, holds a document, or is empty (left so by a process that     *)
(* ended between open and json.dump of save_settings).                     *)
(***************************************************************************)
\* When load_settings raises, no VentilationSystem exists: the process has
\* ended, and the variables of the object keep the values below unused.
Init ==
    /\ file \in {Absent, Doc(DefaultSettings), Truncated}
    /\ settings = IF load_raises(file) THEN DefaultSettings
                  ELSE load_settings(file)
    /\ state = DefaultState
    /\ detached = DefaultState
    /\ sensor_data = InitSensor
    /\ pc = IF load_raises(file) THEN "done" ELSE "start"
    /\ co2_limit = Num(0)
    /\ exc = IF load_raises(file) THEN "JSONDecodeError" ELSE "none"
    /\ cleanups = 0
    /\ cycles = 0
    /\ web = "none"
    /\ req = [r \in Reqs |-> Idle]
    /\ posts = 0
    /\ gets = 0
    /\ statuses = {}
    /\ acks = {}
    /\ published = {}
    /\ decisions = {}
    /\ used = <<>>
    /\ cycleCfgs = {}
    /\ lastPatch = EmptyPatch
    /\ settled = FALSE
    /\ fresh = FALSE

\* a response is visible in the step that sends it
NoReply == statuses' = {} /\ acks' = {}

\* the records of the current cycle end with it
EndCycle == used' = <<>> /\ cycleCfgs' = {} /\ fresh' = FALSE

storeVars == <<settings, file>>
reqVars == <<req, posts, gets, lastPatch, settled>>
cycleVars == <<used, cycleCfgs, fresh>>
mainVars == <<state, detached, sensor_data, pc, co2_limit, exc, cleanups,
              cycles, web, published, decisions, used>>

(***************************************************************************)
(* The main thread: run().                                                 *)
(***************************************************************************)
\* lines 184-185: start the web thread; web_interface imports Flask or
\* logs that it is not installed
StartWeb ==
    /\ pc = "start"
    /\ pc' = "while"
    /\ \E w \in {"serving", "unavailable"} : web' = w
    /\ NoReply
    /\ UNCHANGED <<state, detached, sensor_data, co2_limit, exc, cleanups,
                   cycles, published, decisions>>
    /\ UNCHANGED <<storeVars, reqVars, cycleVars>>

\* line 188: while self.running
LoopCheck ==
    /\ pc = "while"
    /\ cycles < MaxCycles
    /\ pc' = IF running THEN "read" ELSE "cleanup"
    /\ NoReply
    /\ UNCHANGED <<state, detached, sensor_data, co2_limit, exc, cleanups,
                   cycles, web, published, decisions>>
    /\ UNCHANGED <<storeVars, reqVars, cycleVars>>

\* lines 129-138: self.sensor_data = self.read_sensors()
ReadSensors ==
    /\ pc = "read"
    /\ \E d \in read_sensors : sensor_data' = d
    /\ pc' = "heating"
    /\ cycles' = cycles + 1
    /\ used' = <<>>
    /\ cycleCfgs' = {settings}
    /\ fresh' = settled
    /\ NoReply
    /\ UNCHANGED <<state, detached, co2_limit, exc, cleanups, web, published, decisions>>
    /\ UNCHANGED <<storeVars, reqVars>>

\* a run() without the finally clause: the exception ends run() at once
Raise_no_finally ==
    /\ pc' = "returned"
    /\ exc' = "TypeError"
    /\ EndCycle
    /\ UNCHANGED <<state, published, decisions>>

\* a rule raised TypeError: the exception leaves the try block of run()
\* through its finally clause
Raise ==
    /\ pc' = "cleanup"
    /\ exc' = "TypeError"
    /\ EndCycle
    /\ UNCHANGED <<state, published, decisions>>

\* line 140: self.control_heating(temp)
Heating ==
    /\ pc = "heating"
    /\ IF Raises(settings.target_temp)
       THEN Raise
       ELSE /\ state' = control_heating(state, settings.target_temp,
                                        sensor_data.temperature)
            /\ used' = Append(used, settings.target_temp)
            /\ pc' = "cooling"
            /\ UNCHANGED <<exc, published, decisions, cycleCfgs, fresh>>
    /\ NoReply
    /\ UNCHANGED <<detached, sensor_data, co2_limit, cleanups, cycles, web>>
    /\ UNCHANGED <<storeVars, reqVars>>

\* line 141: self.control_cooling(temp)
Cooling ==
    /\ pc = "cooling"
    /\ IF Raises(settings.target_temp)
       THEN Raise
       ELSE /\ state' = control_cooling(state, settings.target_temp,
                                        sensor_data.temperature)
            /\ used' = Append(used, settings.target_temp)
            /\ pc' = "humidifier"
            /\ UNCHANGED <<exc, published, decisions, cycleCfgs, fresh>>
    /\ NoReply
    /\ UNCHANGED <<detached, sensor_data, co2_limit, cleanups, cycles, web>>
    /\ UNCHANGED <<storeVars, reqVars>>

\* line 142: self.control_humidifier(humidity)
Humidifier ==
    /\ pc = "humidifier"
    /\ IF Raises(settings.target_humidity)
       THEN Raise
       ELSE /\ state' = control_humidifier(state, settings.target_humidity,
                                           sensor_data.humidity)
            /\ used' = Append(used, settings.target_humidity)
            /\ pc' = "fan"
            /\ UNCHANGED <<exc, published, decisions, cycleCfgs, fresh>>
    /\ NoReply
    /\ UNCHANGED <<detached, sensor_data, co2_limit, cleanups, cycles, web>>
    /\ UNCHANGED <<storeVars, reqVars>>

\* line 108: co2_limit = self.settings["co2_limit"]
FanLimit ==
    /\ pc = "fan"
    /\ co2_limit' = settings.co2_limit
    /\ used' = Append(used, settings.co2_limit)
    /\ pc' = "fan2"
    /\ NoReply
    /\ UNCHANGED <<state, detached, sensor_data, exc, cleanups, cycles, web,
                   published, decisions, cycleCfgs, fresh>>
    /\ UNCHANGED <<storeVars, reqVars>>

\* lines 109-118: min_airflow = self.settings["min_airflow"] and the test
Fan ==
    /\ pc = "fan2"
    /\ IF control_fan_raises(co2_limit, settings.min_airflow, sensor_data.co2)
       THEN Raise
       ELSE /\ state' = control_fan(state, co2_limit, settings.min_airflow,
                                    sensor_data.co2, sensor_data.airflow)
            /\ used' = Append(used, settings.min_airflow)
            /\ pc' = "recuperator"
            /\ UNCHANGED <<exc, published, decisions, cycleCfgs, fresh>>
    /\ co2_limit' = Num(0)
    /\ NoReply
    /\ UNCHANGED <<detached, sensor_data, cleanups, cycles, web>>
    /\ UNCHANGED <<storeVars, reqVars>>

\* line 144: self.control_recuperator(temp), the last statement of
\* update_system
Recuperator ==
    /\ pc = "recuperator"
    /\ state' = control_recuperator(state, settings.recuperator_enabled,
                                    sensor_data.temperature)
    /\ used' = Append(used, settings.recuperator_enabled)
    /\ published' = published \cup {state'}
    /\ decisions' = decisions \cup {[sensor_data |-> sensor_data, state |-> state']}
    /\ pc' = "sleep"
    /\ NoReply
    /\ UNCHANGED <<detached, sensor_data, co2_limit, exc, cleanups, cycles,
                   web, cycleCfgs, fresh>>
    /\ UNCHANGED <<storeVars, reqVars>>

\* line 190: time.sleep(10)
Sleep ==
    /\ pc = "sleep"
    /\ pc' = "while"
    /\ EndCycle
    /\ NoReply
    /\ UNCHANGED <<state, detached, sensor_data, co2_limit, exc, cleanups,
                   cycles, web, published, decisions>>
    /\ UNCHANGED <<storeVars, reqVars>>

\* the statements of run() inside the try block
InTry == {"while", "read", "heating", "cooling", "humidifier", "fan", "fan2",
          "recuperator", "sleep"}

\* Ctrl-C: KeyboardInterrupt is raised in the main thread between two
\* statements.  Inside the try block it is caught (lines 191-192) and the
\* finally clause runs; before the try block it ends the process.
Interrupt ==
    /\ pc \in InTry \cup {"start"}
    /\ exc = "none"
    /\ exc' = "KeyboardInterrupt"
    /\ pc' = IF pc = "start" THEN "done" ELSE "cleanup"
    /\ co2_limit' = Num(0)
    /\ EndCycle
    /\ NoReply
    /\ UNCHANGED <<state, detached, sensor_data, cleanups, cycles, web,
                   published, decisions>>
    /\ UNCHANGED <<storeVars, reqVars>>

\* cleanup that only logs and leaves self.state as it is
cleanup_keep(st) == st

\* lines 196-199: self.state = SystemState()
cleanup(st) == DefaultState

Cleanup ==
    /\ pc = "cleanup"
    /\ detached' = state
    /\ state' = cleanup(state)
    /\ cleanups' = cleanups + 1
    /\ pc' = "returned"
    /\ NoReply
    /\ UNCHANGED <<sensor_data, co2_limit, exc, cycles, web, published, decisions>>
    /\ UNCHANGED <<storeVars, reqVars, cycleVars>>

\* run() returns, or re-raises the TypeError; the process ends and takes
\* the daemon web thread with it
Exit ==
    /\ pc = "returned"
    /\ pc' = "done"
    /\ NoReply
    /\ UNCHANGED <<state, detached, sensor_data, co2_limit, exc, cleanups,
                   cycles, web, published, decisions>>
    /\ UNCHANGED <<storeVars, reqVars, cycleVars>>

(***************************************************************************)
(* The web thread: one handler per request, interleaved with run().        *)
(***************************************************************************)
\* line 162: self.sensor_data.__dict__, the dict of the SensorData object
\* that is current now; that object is never written again
GetSensor(r) ==
    /\ Serving
    /\ FreeHandler(r)
    /\ gets < MaxGets
    /\ gets' = gets + 1
    /\ req' = [req EXCEPT ![r] = [Idle EXCEPT !.at = "get_state",
                                              !.sensor = sensor_data]]
    /\ NoReply
    /\ UNCHANGED <<storeVars, posts, lastPatch, settled, cycleCfgs, fresh>>
    /\ UNCHANGED mainVars

\* a get_status that also switches every actuator off
GetState_resets(r) ==
    /\ Serving
    /\ req[r].at = "get_state"
    /\ req' = [req EXCEPT ![r].at = "get_json",
                          ![r].ref = IF cleanups = 0 THEN "first" ELSE "last"]
    /\ state' = DefaultState
    /\ NoReply
    /\ UNCHANGED <<storeVars, posts, gets, lastPatch, settled, cycleCfgs,
                   fresh>>
    /\ UNCHANGED <<detached, sensor_data, pc, co2_limit, exc, cleanups,
                   cycles, web, published, decisions, used>>

\* line 163: self.state.__dict__, a reference to the dict of the SystemState
\* object that self.state refers to now
GetState(r) ==
    /\ Serving
    /\ req[r].at = "get_state"
    /\ req' = [req EXCEPT ![r].at = "get_json",
                          ![r].ref = IF cleanups = 0 THEN "first" ELSE "last"]
    /\ NoReply
    /\ UNCHANGED <<storeVars, posts, gets, lastPatch, settled, cycleCfgs,
                   fresh>>
    /\ UNCHANGED mainVars

\* the SystemState object a reference taken by GetState denotes now
Deref(ref) == IF ref = "first" /\ cleanups > 0 THEN detached ELSE state

\* lines 160-166: jsonify serializes the three dicts as they are now
GetJson(r) ==
    /\ Serving
    /\ req[r].at = "get_json"
    /\ statuses' = {[sensor_data |-> req[r].sensor,
                     state |-> Deref(req[r].ref),
                     settings |-> settings]}
    /\ acks' = {}
    /\ req' = [req EXCEPT ![r] = Idle]
    /\ UNCHANGED <<storeVars, posts, gets, lastPatch, settled, cycleCfgs,
                   fresh>>
    /\ UNCHANGED mainVars

\* lines 170-171: data = request.json; self.settings.update(data)
PostUpdate(r) ==
    /\ Serving
    /\ FreeHandler(r)
    /\ posts < MaxPosts
    /\ posts' = posts + 1
    /\ \E data \in Patches :
        /\ settings' = Update(settings, data)
        /\ lastPatch' = data
        /\ req' = [req EXCEPT ![r] = [Idle EXCEPT !.at = "save_open",
                                                  !.data = data,
                                                  !.id = posts + 1]]
    /\ settled' = FALSE
    /\ fresh' = FALSE
    /\ cycleCfgs' = IF cycleCfgs = {} THEN {} ELSE cycleCfgs \cup {settings'}
    /\ NoReply
    /\ UNCHANGED <<file, gets>>
    /\ UNCHANGED mainVars

\* line 58: open("settings.json", "w") truncates the file
SaveOpen(r) ==
    /\ Serving
    /\ req[r].at = "save_open"
    /\ file' = Truncated
    /\ req' = [req EXCEPT ![r].at = "save_dump"]
    /\ NoReply
    /\ UNCHANGED <<settings, posts, gets, lastPatch, settled, cycleCfgs,
                   fresh>>
    /\ UNCHANGED mainVars

\* a save that writes the default settings, whatever self.settings holds
save_settings_defaults(s) == Doc(DefaultSettings)

\* line 59, json.dump(self.settings, f, indent=2): the document of
\* self.settings goes to the buffer of the file object
save_settings(s) == Doc(s)

SaveDump(r) ==
    /\ Serving
    /\ req[r].at = "save_dump"
    /\ req' = [req EXCEPT ![r].at = "save_close",
                          ![r].doc = save_settings(settings).doc]
    /\ NoReply
    /\ UNCHANGED <<storeVars, posts, gets, lastPatch, settled, cycleCfgs,
                   fresh>>
    /\ UNCHANGED mainVars

\* the end of the with block (line 59) writes the buffer at offset 0 of the
\* file, then line 173: return jsonify({"status": "ok"})
SaveClose(r) ==
    /\ Serving
    /\ req[r].at = "save_close"
    /\ file' = Overwrite(file, req[r].doc)
    /\ acks' = {[status |-> "ok", data |-> req[r].data]}
    /\ statuses' = {}
    /\ settled' = (settled \/ req[r].id = posts)
    /\ req' = [req EXCEPT ![r] = Idle]
    /\ UNCHANGED <<settings, posts, gets, lastPatch, cycleCfgs, fresh>>
    /\ UNCHANGED mainVars

Next ==
    \/ StartWeb
    \/ LoopCheck
    \/ ReadSensors
    \/ Heating
    \/ Cooling
    \/ Humidifier
    \/ FanLimit
    \/ Fan
    \/ Recuperator
    \/ Sleep
    \/ Interrupt
    \/ Cleanup
    \/ Exit
    \/ \E r \in Reqs : GetSensor(r)
    \/ \E r \in Reqs : GetState(r)
    \/ \E r \in Reqs : GetJson(r)
    \/ \E r \in Reqs : PostUpdate(r)
    \/ \E r \in Reqs : SaveOpen(r)
    \/ \E r \in Reqs : SaveDump(r)
    \/ \E r \in Reqs : SaveClose(r)

Spec == Init /\ [][Next]_vars

(***************************************************************************)
(* The decision rules on their own: one pass of update_system from every   *)
(* combination of a reading, a configuration and a previous SystemState,   *)
(* with no request and no interrupt.  The readings sit on both sides of    *)
(* every threshold, including temperatures around 5.0 that the simulated   *)
(* source never produces.                                                  *)
(***************************************************************************)
RuleTemps == {50, 51, 209, 210, 225, 226, 250, 251}
RuleHums == {449, 450, 530, 531}
RuleCo2s == {800, 801}
RuleAirflows == {299, 300}

RuleReadings ==
    {SensorData(t, h, c, a) : t \in RuleTemps, h \in RuleHums,
                              c \in RuleCo2s, a \in RuleAirflows}

RuleSettings ==
    {[DefaultSettings EXCEPT !.target_temp = t, !.co2_limit = c,
                             !.recuperator_enabled = e] :
        t \in {Num(205), Num(220)}, c \in {Num(800), Num(1000)},
        e \in BOOLEAN}

RuleStates ==
    [heating : BOOLEAN, cooling : BOOLEAN, humidifier : BOOLEAN,
     fan_speed : {0, 100}, recuperator : BOOLEAN]

InitRules ==
    /\ settings \in RuleSettings
    /\ state \in RuleStates
    /\ sensor_data \in RuleReadings
    /\ file = Doc(settings)
    /\ detached = DefaultState
    /\ pc = "heating"
    /\ co2_limit = Num(0)
    /\ exc = "none"
    /\ cleanups = 0
    /\ cycles = 1
    /\ web = "none"
    /\ req = [r \in Reqs |-> Idle]
    /\ posts = 0
    /\ gets = 0
    /\ statuses = {}
    /\ acks = {}
    /\ published = {}
    /\ decisions = {}
    /\ used = <<>>
    /\ cycleCfgs = {settings}
    /\ lastPatch = EmptyPatch
    /\ settled = FALSE
    /\ fresh = FALSE

NextRules ==
    \/ Heating
    \/ Cooling
    \/ Humidifier
    \/ FanLimit
    \/ Fan
    \/ Recuperator

SpecRules == InitRules /\ [][NextRules]_vars

(***************************************************************************)
(* Properties of the decision rules.                                       *)
(***************************************************************************)
IsNum(v) == v.kind = "num"

\* C1: heating hysteresis.  The control_heating step of a cycle leaves
\* heating true when temperature < target_temp - 1.0, false when
\* temperature > target_temp + 0.5, and equal to its value before the step
\* for every temperature of the dead-band in between, bounds included.
C1_HeatingHysteresis ==
    [][(pc = "heating" /\ pc' = "cooling" /\ IsNum(settings.target_temp)) =>
        LET temp == sensor_data.temperature
            target == settings.target_temp.val
        IN  /\ temp < target - 10 => state'.heating
            /\ temp > target + 5 => ~state'.heating
            /\ (temp >= target - 10 /\ temp <= target + 5) =>
                   state'.heating = state.heating]_vars

\* heating held on at the lower bound of the dead-band
C1_Witness ==
    /\ pc = "cooling"
    /\ settings.target_temp = Num(220)
    /\ sensor_data.temperature = 210
    /\ state.heating

\* C5: fan rule.  The control_fan step leaves fan_speed at 50 or 100, and
\* at 100 exactly when co2 > co2_limit or airflow < min_airflow, for the
\* co2_limit and min_airflow the rule read, whatever fan_speed was before.
C5_FanRule ==
    [][(pc = "fan2" /\ pc' = "recuperator" /\ IsNum(co2_limit)
            /\ IsNum(settings.min_airflow)) =>
        /\ state'.fan_speed \in {50, 100}
        /\ state'.fan_speed = 100 <=>
               \/ sensor_data.co2 > co2_limit.val
               \/ sensor_data.airflow < settings.min_airflow.val]_vars

\* fan at 100 for low airflow alone, and fan brought down from 100 to 50
C5_Witness ==
    /\ pc = "recuperator"
    /\ \/ /\ state.fan_speed = 100
          /\ sensor_data.co2 = 800
          /\ sensor_data.airflow = 299
          /\ settings.co2_limit = Num(800)
       \/ /\ state.fan_speed = 50
          /\ sensor_data.co2 = 801
          /\ sensor_data.airflow = 300
          /\ settings.co2_limit = Num(1000)

\* C6: cooling rule.  The control_cooling step leaves cooling true exactly
\* when temperature > target_temp + 3.0, whatever cooling was before.
C6_CoolingRule ==
    [][(pc = "cooling" /\ pc' = "humidifier" /\ IsNum(settings.target_temp)) =>
        (state'.cooling <=>
            sensor_data.temperature > settings.target_temp.val + 30)]_vars

\* cooling switched on just above the threshold
C6_Witness ==
    /\ pc = "humidifier"
    /\ state.cooling
    /\ settings.target_temp = Num(220)
    /\ sensor_data.temperature = 251

\* C7: humidifier hysteresis.  The control_humidifier step leaves humidifier
\* true when humidity < target_humidity - 5.0, false when
\* humidity > target_humidity + 3.0, and otherwise equal to its value before
\* the step.
C7_HumidifierHysteresis ==
    [][(pc = "humidifier" /\ pc' = "fan"
            /\ IsNum(settings.target_humidity)) =>
        LET humidity == sensor_data.humidity
            target == settings.target_humidity.val
        IN  /\ humidity < target - 50 => state'.humidifier
            /\ humidity > target + 30 => ~state'.humidifier
            /\ (humidity >= target - 50 /\ humidity <= target + 30) =>
                   state'.humidifier = state.humidifier]_vars

\* humidifier held on at the upper bound of the dead-band
C7_Witness ==
    /\ pc = "fan"
    /\ settings.target_humidity = Num(500)
    /\ sensor_data.humidity = 530
    /\ state.humidifier

\* C8: recuperator rule.  The control_recuperator step leaves recuperator
\* true exactly when recuperator_enabled is true and temperature > 5.0,
\* whatever recuperator was before.
C8_RecuperatorRule ==
    [][(pc = "recuperator" /\ pc' = "sleep") =>
        (state'.recuperator <=>
            (settings.recuperator_enabled
                /\ sensor_data.temperature > 50))]_vars

\* recuperator off at exactly 5.0 degrees although it is enabled
C8_Witness ==
    /\ pc = "sleep"
    /\ settings.recuperator_enabled
    /\ sensor_data.temperature = 50
    /\ ~state.recuperator

(***************************************************************************)
(* Properties of the running system: the control loop, the requests and    *)
(* the interrupt interleaved.                                              *)
(***************************************************************************)
\* run() has left its try block and cleanup() has run, or the process ended
Stopped == pc \in {"returned", "done"}

\* C2: shutdown.  Once the stop has been processed the SystemState is the
\* all-off default, and from then on the loop stays stopped and the
\* SystemState stays at that default.
C2_Shutdown ==
    [][/\ Stopped' => state' = DefaultState
       /\ Stopped => Stopped']_vars

\* stopped by Ctrl-C while devices were commanded on
C2_Witness ==
    /\ pc = "returned"
    /\ exc = "KeyboardInterrupt"
    /\ cleanups = 1
    /\ detached.heating
    /\ detached.fan_speed = 100
    /\ state = DefaultState

\* C3: no torn ActuatorState.  The state of every GET /status response is
\* the all-off default or the SystemState some decision cycle ended with.
C3_NoTornStatus ==
    \A s \in statuses : s.state = DefaultState \/ s.state \in published

\* the setting each read of a cycle takes, in the order of the reads
ReadKey == <<"target_temp", "target_temp", "target_humidity", "co2_limit",
             "min_airflow", "recuperator_enabled">>

\* C4: a patch is atomic for a cycle.  At the end of a decision cycle there
\* is one value self.settings had during the cycle with which every value
\* the rules read agrees.
C4_SingleConfigPerCycle ==
    pc = "sleep" =>
        \E c \in cycleCfgs : \A i \in 1..Len(used) : used[i] = c[ReadKey[i]]

\* C9: a patch is picked up by the next cycle.  In a cycle that started
\* after the request of the last update was answered, with no update since,
\* every rule reads the value that update set; with co2_limit patched to
\* 1000 and min_airflow 30.0, co2=900 and airflow=40 give fan_speed 50.
C9_PatchPickedUp ==
    [][(fresh /\ fresh') =>
        /\ Len(used') > Len(used) =>
               LET k == ReadKey[Len(used')]
               IN  k \in DOMAIN lastPatch => used'[Len(used')] = lastPatch[k]
        /\ (/\ pc = "fan2" /\ pc' = "recuperator"
            /\ lastPatch = ("co2_limit" :> Num(1000))
            /\ settings.min_airflow = Num(300)
            /\ sensor_data.co2 = 900
            /\ sensor_data.airflow = 400) => state'.fan_speed = 50]_vars

\* the scenario of C9, after the fan rule
C9_Witness ==
    /\ pc = "recuperator"
    /\ fresh
    /\ lastPatch = ("co2_limit" :> Num(1000))
    /\ settings.min_airflow = Num(300)
    /\ sensor_data.co2 = 900
    /\ sensor_data.airflow = 400
    /\ state.fan_speed = 50

\* a request body with a numeric setting that is no finite number
Malformed(data) ==
    \E k \in NumericKeys \cap DOMAIN data : ~IsNum(data[k])

\* C10: malformed patches are rejected.  No malformed request is answered
\* "ok", and every numeric field of self.settings and of settings.json is a
\* finite number.
C10_MalformedRejected ==
    /\ \A a \in acks : Malformed(a.data) => a.status # "ok"
    /\ \A k \in NumericKeys : IsNum(settings[k])
    /\ file.kind = "json" => \A k \in NumericKeys : IsNum(file.doc[k])

\* C11: applyPatch merges only the settings fields.  self.settings and the
\* document in settings.json have exactly the five settings fields, whatever
\* fields the request bodies carried.
C11_OnlySettingsFields ==
    /\ DOMAIN settings = SettingsKeys
    /\ file.kind = "json" => DOMAIN file.doc = SettingsKeys

\* C12: load never fails the caller.  __init__ does not end with the parse
\* error of settings.json, and with the file absent or unparsable the
\* program starts with the documented defaults.
C12_LoadNeverFails ==
    /\ exc # "JSONDecodeError"
    /\ (pc = "start" /\ file.kind \in {"absent", "truncated"}) =>
           settings = DefaultSettings

\* C13: shutdown persists the final configuration.  Once cleanup() has run,
\* settings.json holds the document of self.settings.
C13_ShutdownPersists ==
    (cleanups > 0 /\ pc \in {"returned", "done"}) => file = Doc(settings)

\* C14: cleanup runs on every exit of the control loop.  cleanup() does not
\* run while the loop runs, and once run() has left the loop, by Ctrl-C or
\* by the TypeError of a rule, cleanup() has run exactly once and the
\* SystemState is the all-off default.
C14_CleanupOnEveryExit ==
    /\ cleanups <= 1
    /\ pc \in InTry => cleanups = 0
    /\ (pc \in {"returned", "done"} /\ web # "none") =>
           (cleanups = 1 /\ state = DefaultState)

\* the loop ended by the TypeError of a rule while heating was on
C14_Witness ==
    /\ pc = "returned"
    /\ exc = "TypeError"
    /\ detached.heating
    /\ cleanups = 1
    /\ state = DefaultState

\* a POST /settings request is between its update and its response
PostInFlight ==
    \E r \in Reqs : req[r].at \in {"save_open", "save_dump", "save_close"}

\* C15: the configuration is persisted on every mutation.  Whenever some
\* patch request has been handled and none is in flight, settings.json
\* holds the document of self.settings.
C15_PersistedOnMutation ==
    (posts > 0 /\ ~PostInFlight) => file = Doc(settings)

\* C16: the sensor reading and the ActuatorState of one GET /status response
\* belong to the same cycle: the state is the decision the control loop
\* computed from that reading, or both are the initial values
C16_ConsistentSnapshot ==
    \A s \in statuses :
        \/ s.sensor_data = InitSensor /\ s.state = DefaultState
        \/ [sensor_data |-> s.sensor_data, state |-> s.state] \in decisions

\* C17: an empty patch is idempotent.  settings.update({}) changes no field
\* of self.settings; the request is answered "ok" without changing
\* self.settings; and when no other request wrote settings.json since this
\* one opened it and no patch was applied after it, the file it leaves holds
\* the unchanged settings.
C17_EmptyPatchIdempotent ==
    [][/\ (posts' = posts + 1 /\ lastPatch' = EmptyPatch) => settings' = settings
       /\ \A r \in Reqs :
            (/\ req[r].at = "save_close"
             /\ req[r].data = EmptyPatch
             /\ req'[r].at = "idle") =>
                /\ acks' = {[status |-> "ok", data |-> EmptyPatch]}
                /\ settings' = settings
                /\ (file.kind = "truncated" /\ req[r].id = posts) =>
                       file' = Doc(settings')]_vars

\* an empty patch answered after an earlier patch set co2_limit to 1000: the
\* settings still hold 1000 and so does the file
C17_Witness ==
    /\ acks = {[status |-> "ok", data |-> EmptyPatch]}
    /\ posts = 2
    /\ ~PostInFlight
    /\ settings.co2_limit = Num(1000)
    /\ file = Doc(settings)

\* Python's == on the values of the settings key k: a float nan, which json
\* writes as NaN and reads back as nan, is equal to nothing, itself included
PyEq(k, a, b) == a = b /\ (k \in NumericKeys => a.kind # "nan")

\* C18: save/load round trip.  For the settings a request hands to
\* save_settings, loading the file that the save leaves when nothing else
\* writes it gives settings equal in all five fields to the ones saved.
C18_SaveLoadRoundTrip ==
    \A r \in Reqs :
        req[r].at = "save_close" =>
            LET f == Overwrite(Truncated, req[r].doc)
            IN  /\ ~load_raises(f)
                /\ \A k \in SettingsKeys :
                       PyEq(k, load_settings(f)[k], req[r].doc[k])

\* C19: ActuatorState has a single writer.  No step of a request handler
\* changes self.state, the SystemState object replaced by cleanup or
\* self.sensor_data; a step of get_status changes neither self.settings nor
\* settings.json; self.state changes only in a rule step of update_system or
\* in cleanup, and self.sensor_data only in read_sensors.
C19_SingleWriter ==
    [][/\ req' # req =>
            /\ state' = state
            /\ detached' = detached
            /\ sensor_data' = sensor_data
       /\ (\/ gets' # gets
           \/ \E r \in Reqs : /\ req[r].at \in {"get_state", "get_json"}
                              /\ req'[r] # req[r]) =>
            /\ settings' = settings
            /\ file' = file
       /\ state' # state =>
            pc \in {"heating", "cooling", "humidifier", "fan2", "recuperator",
                    "cleanup"}
       /\ sensor_data' # sensor_data => pc = "read"]_vars

\* a GET /status answered after a patch, while heating is on: the response
\* shows the state and the reading that are still in place
C19_Witness ==
    /\ posts > 0
    /\ gets = 1
    /\ state.heating
    /\ statuses # {}
    /\ \A s \in statuses : s.state = state /\ s.sensor_data = sensor_data

\* C20: heating and cooling are never on together.  In every state, those
\* between two rules of a cycle included, self.state does not have heating
\* and cooling both true.
C20_NeverHeatAndCool == ~(state.heating /\ state.cooling)

====
